---- MODULE Spec2Model ----
(***************************************************************************)
(* workflowCD2_coastal.py: a Python 2 script that declares a fixed graph   *)
(* of remote tasks through the gbdxtools client.  The script is a straight *)
(* line of module-level statements; the model is the interpreter running   *)
(* them one at a time over the module namespace.  A statement that reads a *)
(* name the namespace does not bind raises NameError, which nothing        *)
(* catches, so the process ends there with status 1.                       *)
(***************************************************************************)
EXTENDS Integers, Sequences, FiniteSets, TLC

\* ---------------------------------------------------------------- bounds
\* largest number of command-line arguments tried (sys.argv has one more)
MaxArgs == 5
\* number of distinct values random_str may take (stands for 36^20)
NumRandIds == 2

\* the argument strings tried (spec section 8, scenario 5)
ArgStrings == {"s3://bucket/post", "s3://bucket/pre", "platform_stories/coastal_change"}
RandIds == 1..NumRandIds

ScriptName == "workflowCD2_coastal.py"

\* ------------------------------------------------------------- the script
St(line, kind, target, reads, op, slot, src, port, idx, list) ==
    [line |-> line, kind |-> kind, target |-> target, reads |-> reads, op |-> op,
     slot |-> slot, src |-> src, port |-> port, idx |-> idx, list |-> list]

ArgCheckSt(line) == St(line, "argcheck", "", <<"len", "sys">>, "", "", "", "", 0, <<>>)
ArgAssignSt(line, target, idx) == St(line, "argassign", target, <<"sys">>, "", "", "", "", idx, <<>>)
InterfaceSt(line, target) == St(line, "interface", target, <<"gbdxtools">>, "", "", "", "", 0, <<>>)
TaskSt(line, target, op) == St(line, "task", target, <<"gbdx">>, op, "", "", "", 0, <<>>)
DomainSt(line, node, val) == St(line, "domain", node, <<node>>, val, "", "", "", 0, <<>>)
\* node.inputs.slot = src            (port = "": the value of a plain name)
\* node.inputs.slot = src.outputs.port.value
\* Python evaluates the right-hand side before the assignment target.
InputSt(line, node, slot, src, port) == St(line, "setinput", node, <<src, node>>, "", slot, src, port, 0, <<>>)
WorkflowSt(line, target, list) == St(line, "workflow", target, <<"gbdx">> \o list, "", "", "", "", 0, list)
\* the generator's outermost iterable, range(20), is evaluated first
RandStrSt(line, target) == St(line, "randstr", target, <<"range", "random", "string">>, "", "", "", "", 0, <<>>)
OutLocSt(line, target, prefix) == St(line, "outloc", target, <<"join", "random_str">>, prefix, "", "", "", 0, <<>>)
SaveSt(line, node, port, name) == St(line, "savedata", "", <<"wf", node, "output_location">>, name, "", node, port, 0, <<>>)
PrintSt(line, text) == St(line, "print", "", <<>>, text, "", "", "", 0, <<>>)
PrintAttrSt(line, attr) == St(line, "printattr", "", <<"wf">>, attr, "", "", "", 0, <<>>)

WorkflowList == <<"ipa", "water_pre", "water_post", "exclusion_mask", "cd_tri",
                  "cd_loss", "cd_gain", "ddt_gain", "ddt_loss">>

Program ==
    << ArgCheckSt(35),
       ArgAssignSt(42, "postimage", 1),
       ArgAssignSt(43, "preimage", 2),
       ArgAssignSt(44, "myBucket", 3),
       InterfaceSt(50, "gbdx"),
       TaskSt(52, "ipa", "protogenV2CD_READY"),
       InputSt(53, "ipa", "raster", "postimage", ""),
       InputSt(54, "ipa", "slave", "preimage", ""),
       TaskSt(60, "water_pre", "protogenV2RAW"),
       InputSt(61, "water_pre", "raster", "ipa", "slave"),
       TaskSt(63, "water_post", "protogenV2RAW"),
       InputSt(64, "water_post", "raster", "ipa", "data"),
       TaskSt(70, "exclusion_mask", "protogenV2CD_LULC"),
       DomainSt(71, "exclusion_mask", "raid"),
       InputSt(72, "exclusion_mask", "raster", "ipa", "data"),
       InputSt(73, "exclusion_mask", "slave", "ipa", "slave"),
       TaskSt(79, "cd_tri", "protogenV2CD_BIN_TRI"),
       InputSt(80, "cd_tri", "raster", "rawpost", "data"),
       InputSt(81, "cd_tri", "slave", "water_pre", "data"),
       InputSt(82, "cd_tri", "mask", "exclusion_mask", "data"),
       TaskSt(84, "cd_gain", "protogenV2CD_BIN_GAIN"),
       InputSt(85, "cd_gain", "raster", "water_post", "data"),
       InputSt(86, "cd_gain", "slave", "water_pre", "data"),
       InputSt(87, "cd_gain", "mask", "exclusion_mask", "data"),
       TaskSt(89, "cd_loss", "protogenV2CD_BIN_LOSS"),
       InputSt(90, "cd_loss", "raster", "water_post", "data"),
       InputSt(91, "cd_loss", "slave", "water_pre", "data"),
       InputSt(92, "cd_loss", "mask", "exclusion_mask", "data"),
       TaskSt(98, "ddt_gain", "protogenV2CD_GDDT"),
       InputSt(99, "ddt_gain", "raster", "water_post", "data"),
       InputSt(100, "ddt_gain", "slave", "cd_gain", "data"),
       TaskSt(102, "ddt_loss", "protogenV2CD_LDDT"),
       InputSt(103, "ddt_loss", "raster", "water_post", "data"),
       InputSt(104, "ddt_loss", "slave", "cd_loss", "data"),
       WorkflowSt(112, "wf", WorkflowList),
       RandStrSt(115, "random_str"),
       OutLocSt(116, "output_location", "platform-stories/trial-runs"),
       SaveSt(119, "water_pre", "data", "water_pre"),
       SaveSt(120, "water_post", "data", "water_post"),
       SaveSt(121, "exclusion_mask", "data", "exclusion_mask"),
       SaveSt(122, "cd_tri", "data", "cd_tristate"),
       SaveSt(123, "cd_gain", "data", "cd_bin_gain"),
       SaveSt(124, "cd_loss", "data", "cd_bin_loss"),
       SaveSt(125, "ddt_gain", "data", "ddt_gain"),
       SaveSt(126, "ddt_loss", "data", "ddt_loss"),
       PrintSt(129, "Coastal Change Detection Workflow: \n\n"),
       PrintAttrSt(130, "status"),
       PrintAttrSt(131, "id") >>

\* names bound when line 35 is reached: the four imports and the builtins used
Imports == {"sys", "os", "fnmatch", "gbdxtools"}
Builtins == {"len", "range"}

UsageMsg == "USAGE: python workflowCD2_coastal.py indir1 indir2 myBucket\n"

\* ------------------------------------------------------------------ state
VARIABLES
    argv,        \* sys.argv: the script name followed by the arguments
    pc,          \* index in Program of the next statement
    run,         \* "running" | "exited"
    exitStatus,  \* process exit status once exited
    exc,         \* "none" | "SystemExit" | "NameError"
    stderr,      \* the usage message or the unbound name reported
    bound,       \* names bound in the module namespace
    strs,        \* string variables: name -> value
    tasks,       \* task objects in creation order: [var, op]
    domains,     \* task var -> domain attribute, where set
    inputs,      \* <<task var, slot>> -> value
    wf,          \* [built, tasks]: the Workflow object
    randStr,     \* random_str (0: not generated)
    outLoc,      \* output_location as path segments
    saves,       \* save directives in call order: [node, port, path]
    stdout       \* what the script printed

vars == <<argv, pc, run, exitStatus, exc, stderr, bound, strs, tasks, domains,
          inputs, wf, randStr, outLoc, saves, stdout>>

Lit(s) == [kind |-> "lit", val |-> s, node |-> "", port |-> ""]
Ref(n, p) == [kind |-> "ref", val |-> "", node |-> n, port |-> p]

TaskVars == {tasks[i].var : i \in 1..Len(tasks)}

RECURSIVE SeqsOf(_, _)
SeqsOf(S, n) == IF n = 0 THEN {<<>>}
                ELSE {Append(s, x) : s \in SeqsOf(S, n - 1), x \in S}

Init ==
    /\ argv \in {<<ScriptName>> \o a : a \in UNION {SeqsOf(ArgStrings, n) : n \in 0..MaxArgs}}
    /\ pc = 1
    /\ run = "running"
    /\ exitStatus = 0
    /\ exc = "none"
    /\ stderr = ""
    /\ bound = Imports \cup Builtins
    /\ strs = <<>>
    /\ tasks = <<>>
    /\ domains = <<>>
    /\ inputs = <<>>
    /\ wf = [built |-> FALSE, tasks |-> <<>>]
    /\ randStr = 0
    /\ outLoc = <<>>
    /\ saves = <<>>
    /\ stdout = <<>>

\* ------------------------------------------------------------- statements
Cur == Program[pc]

\* the check with its second disjunct lost: extra arguments are let through
ArgCountBad_OnlyTooFew == Len(argv) < 4

\* line 35: len(sys.argv) < 4 or len(sys.argv) > 4
ArgCountBad == Len(argv) < 4 \/ Len(argv) > 4

\* first name, in evaluation order, that the namespace does not bind
RECURSIVE FirstUnbound(_, _)
FirstUnbound(reads, b) ==
    IF reads = <<>> THEN ""
    ELSE IF Head(reads) \notin b THEN Head(reads)
    ELSE FirstUnbound(Tail(reads), b)

Put(f, k, v) == [x \in DOMAIN f \cup {k} |-> IF x = k THEN v ELSE f[x]]

\* where control goes after a statement that completed normally
Advance ==
    IF pc = Len(Program)
    THEN /\ pc' = pc /\ run' = "exited" /\ exitStatus' = 0
    ELSE /\ pc' = pc + 1 /\ run' = run /\ exitStatus' = exitStatus

\* every output reference taken from the data port, whatever port is named
InputValue_AlwaysData(s) == IF s.port = "" THEN Lit(strs[s.src]) ELSE Ref(s.src, "data")

\* the value a setinput statement assigns
InputValue(s) == IF s.port = "" THEN Lit(strs[s.src]) ELSE Ref(s.src, s.port)

Effect(s) ==
    CASE s.kind = "argcheck" ->
            UNCHANGED <<bound, strs, tasks, domains, inputs, wf, randStr, outLoc, saves, stdout>>
      [] s.kind = "argassign" ->
            /\ strs' = Put(strs, s.target, argv[s.idx + 1])
            /\ bound' = bound \cup {s.target}
            /\ UNCHANGED <<tasks, domains, inputs, wf, randStr, outLoc, saves, stdout>>
      [] s.kind = "interface" ->
            /\ bound' = bound \cup {s.target}
            /\ UNCHANGED <<strs, tasks, domains, inputs, wf, randStr, outLoc, saves, stdout>>
      [] s.kind = "task" ->
            /\ tasks' = Append(tasks, [var |-> s.target, op |-> s.op])
            /\ bound' = bound \cup {s.target}
            /\ UNCHANGED <<strs, domains, inputs, wf, randStr, outLoc, saves, stdout>>
      [] s.kind = "domain" ->
            /\ domains' = Put(domains, s.target, s.op)
            /\ UNCHANGED <<bound, strs, tasks, inputs, wf, randStr, outLoc, saves, stdout>>
      [] s.kind = "setinput" ->
            /\ inputs' = Put(inputs, <<s.target, s.slot>>, InputValue(s))
            /\ UNCHANGED <<bound, strs, tasks, domains, wf, randStr, outLoc, saves, stdout>>
      [] s.kind = "workflow" ->
            /\ wf' = [built |-> TRUE, tasks |-> s.list]
            /\ bound' = bound \cup {s.target}
            /\ UNCHANGED <<strs, tasks, domains, inputs, randStr, outLoc, saves, stdout>>
      [] s.kind = "randstr" ->
            /\ randStr' \in RandIds
            /\ bound' = bound \cup {s.target}
            /\ UNCHANGED <<strs, tasks, domains, inputs, wf, outLoc, saves, stdout>>
      [] s.kind = "outloc" ->
            /\ outLoc' = <<s.op>>
            /\ bound' = bound \cup {s.target}
            /\ UNCHANGED <<strs, tasks, domains, inputs, wf, randStr, saves, stdout>>
      [] s.kind = "savedata" ->
            /\ saves' = Append(saves, [node |-> s.src, port |-> s.port,
                                       path |-> [segs |-> outLoc, rand |-> randStr, name |-> s.op]])
            /\ UNCHANGED <<bound, strs, tasks, domains, inputs, wf, randStr, outLoc, stdout>>
      [] s.kind = "print" ->
            /\ stdout' = Append(stdout, s.op)
            /\ UNCHANGED <<bound, strs, tasks, domains, inputs, wf, randStr, outLoc, saves>>
      [] s.kind = "printattr" ->
            /\ stdout' = Append(stdout, "wf." \o s.op)
            /\ UNCHANGED <<bound, strs, tasks, domains, inputs, wf, randStr, outLoc, saves>>

\* ---------------------------------------------------------------- actions
\* line 36: sys.exit(message) - message to stderr, status 1
UsageExit ==
    /\ run = "running"
    /\ Cur.kind = "argcheck"
    /\ FirstUnbound(Cur.reads, bound) = ""
    /\ ArgCountBad
    /\ run' = "exited"
    /\ exitStatus' = 1
    /\ exc' = "SystemExit"
    /\ stderr' = UsageMsg
    /\ UNCHANGED <<argv, pc, bound, strs, tasks, domains, inputs, wf, randStr, outLoc, saves, stdout>>

\* a statement whose names all resolve runs to completion
Exec ==
    /\ run = "running"
    /\ FirstUnbound(Cur.reads, bound) = ""
    /\ Cur.kind = "argcheck" => ~ArgCountBad
    /\ Effect(Cur)
    /\ Advance
    /\ UNCHANGED <<argv, exc, stderr>>

\* a statement that reads an unbound name: uncaught NameError, status 1
RaiseNameError ==
    /\ run = "running"
    /\ FirstUnbound(Cur.reads, bound) # ""
    /\ run' = "exited"
    /\ exitStatus' = 1
    /\ exc' = "NameError"
    /\ stderr' = FirstUnbound(Cur.reads, bound)
    /\ UNCHANGED <<argv, pc, bound, strs, tasks, domains, inputs, wf, randStr, outLoc, saves, stdout>>

Next == UsageExit \/ Exec \/ RaiseNameError

Spec == Init /\ [][Next]_vars

\* ------------------------------------------------------------- properties
\* a run started with exactly three arguments that has ended
Done3 == run = "exited" /\ Len(argv) = 4

HasInput(n, slot, v) == <<n, slot>> \in DOMAIN inputs /\ inputs[<<n, slot>>] = v

LineIdx(l) == CHOOSE i \in 1..Len(Program) : Program[i].line = l

NodeOfOp(op) == CHOOSE v \in TaskVars : \E i \in 1..Len(tasks) : tasks[i].var = v /\ tasks[i].op = op

NineInOrder == <<"ipa", "water_pre", "water_post", "exclusion_mask", "cd_tri",
                 "cd_gain", "cd_loss", "ddt_gain", "ddt_loss">>

EightOutputs == {"water_pre", "water_post", "exclusion_mask", "cd_tristate",
                 "cd_bin_gain", "cd_bin_loss", "ddt_gain", "ddt_loss"}

\* C1: with exactly three arguments the argument-count check does not exit
\* and the run goes on to build the client and a first task node; with any
\* other count the run never leaves line 35, builds no client, task node,
\* workflow or save directive, and ends with the usage message and a
\* non-zero status.
C1_ArgCountCheck ==
    /\ Len(argv) # 4 =>
          /\ pc = 1
          /\ "gbdx" \notin bound
          /\ tasks = <<>>
          /\ ~wf.built
          /\ saves = <<>>
          /\ run = "exited" => exc = "SystemExit" /\ stderr = UsageMsg /\ exitStatus # 0
    /\ Len(argv) = 4 =>
          /\ exc # "SystemExit"
          /\ run = "exited" => "gbdx" \in bound /\ Len(tasks) >= 1

C1_Witness == run = "exited" /\ Len(argv) > 4 /\ exc = "SystemExit"

\* C2: every three-argument run hands the workflow exactly nine task nodes
\* in the order readiness, pre water, post water, exclusion mask, tri-state,
\* gain, loss, gain distance transform, loss distance transform.
C2_AsClaimed == Done3 => wf.built /\ wf.tasks = NineInOrder

\* a statement the run has executed or was executing when it ended
Reached(i) == i < pc \/ (i = pc /\ run = "exited")

SourceDeclaredEarlier(s) ==
    IF s.port = "" THEN s.src \in DOMAIN strs
    ELSE \E j, k \in 1..Len(tasks) : tasks[j].var = s.src /\ tasks[k].var = s.target /\ j < k

\* C3: every input-slot assignment the run performs takes its value from an
\* external argument or from an output of a task node declared strictly
\* earlier; never from the node itself, a later node, or an undeclared name.
C3_AsClaimed ==
    \A i \in 1..Len(Program) :
        Reached(i) /\ Program[i].kind = "setinput" => SourceDeclaredEarlier(Program[i])

\* C4: a three-argument run that has ended produced exactly eight save
\* directives, one per output of interest, with pairwise distinct paths that
\* all carry the one random segment generated for the run.
C4_AsClaimed ==
    Done3 =>
        /\ Len(saves) = 8
        /\ {saves[i].path.name : i \in 1..Len(saves)} = EightOutputs
        /\ \A i, j \in 1..Len(saves) : i # j => saves[i].path # saves[j].path
        /\ randStr \in RandIds
        /\ \A i \in 1..Len(saves) : saves[i].path.rand = randStr

\* C5: a three-argument run hands its graph to the service once, with all
\* nine nodes and all eight save directives declared by then, and reads the
\* status and identifier back afterwards.
C5_AsClaimed ==
    Done3 =>
        /\ wf.built
        /\ Len(tasks) = 9
        /\ Len(saves) = 8
        /\ \E i, j \in 1..Len(stdout) : i < j /\ stdout[i] = "wf.status" /\ stdout[j] = "wf.id"

\* C6: each of the eight outputs is saved under
\* <third argument>/platform-stories/trial-runs/<random-id>/<output-name>.
C6_AsClaimed ==
    Done3 =>
        \A name \in EightOutputs :
            \E i \in 1..Len(saves) :
                /\ saves[i].path.name = name
                /\ saves[i].path.segs = <<argv[4], "platform-stories/trial-runs">>
                /\ saves[i].path.rand \in RandIds

\* C7: in a three-argument run the first node's raster input is the first
\* argument and its slave input the second; the exclusion-mask node's raster
\* and slave inputs are the first node's data and slave outputs; and the
\* third argument is the value of no input slot.
C7_FirstAndMaskInputs ==
    Len(argv) = 4 =>
        /\ pc > LineIdx(54) =>
              /\ HasInput(tasks[1].var, "raster", Lit(argv[2]))
              /\ HasInput(tasks[1].var, "slave", Lit(argv[3]))
        /\ pc > LineIdx(73) =>
              /\ HasInput(NodeOfOp("protogenV2CD_LULC"), "raster", Ref(tasks[1].var, "data"))
              /\ HasInput(NodeOfOp("protogenV2CD_LULC"), "slave", Ref(tasks[1].var, "slave"))
        /\ argv[4] \notin {argv[2], argv[3]} =>
              \A k \in DOMAIN inputs : inputs[k] # Lit(argv[4])

C7_Witness ==
    /\ Len(argv) = 4
    /\ argv[2] # argv[3] /\ argv[4] \notin {argv[2], argv[3]}
    /\ <<"exclusion_mask", "slave">> \in DOMAIN inputs

\* C8: in the graph of a three-argument run the tri-state, gain and loss
\* classifiers each read the post water layer (raster), the pre water layer
\* (slave) and the exclusion mask (mask); each distance transform reads the
\* post water layer and its own classifier's output.
C8_AsClaimed ==
    Done3 =>
        /\ \A c \in {"cd_tri", "cd_gain", "cd_loss"} :
              /\ HasInput(c, "raster", Ref("water_post", "data"))
              /\ HasInput(c, "slave", Ref("water_pre", "data"))
              /\ HasInput(c, "mask", Ref("exclusion_mask", "data"))
        /\ HasInput("ddt_gain", "raster", Ref("water_post", "data"))
        /\ HasInput("ddt_gain", "slave", Ref("cd_gain", "data"))
        /\ HasInput("ddt_loss", "raster", Ref("water_post", "data"))
        /\ HasInput("ddt_loss", "slave", Ref("cd_loss", "data"))

AttrReads == SelectSeq(stdout, LAMBDA x : x \in {"wf.status", "wf.id"})

\* C9: a three-argument run ends having read and printed the status once
\* and then the identifier once, and nothing after them.
C9_AsClaimed ==
    Done3 =>
        /\ AttrReads = <<"wf.status", "wf.id">>
        /\ stdout[Len(stdout)] = "wf.id"

Pos(list, v) == CHOOSE i \in 1..Len(list) : list[i] = v
InList(list, v) == \E i \in 1..Len(list) : list[i] = v

\* C10: the node list a three-argument run passes to the workflow contains
\* every node whose output an input slot or a save directive names, and
\* lists each producer before each of its consumers.
C10_AsClaimed ==
    Done3 =>
        /\ wf.built
        /\ \A k \in DOMAIN inputs :
              inputs[k].kind = "ref" =>
                  /\ InList(wf.tasks, inputs[k].node)
                  /\ InList(wf.tasks, k[1])
                  /\ Pos(wf.tasks, inputs[k].node) < Pos(wf.tasks, k[1])
        /\ \A i \in 1..Len(saves) : InList(wf.tasks, saves[i].node)
        /\ \A i \in 1..Len(Program) :
              Reached(i) /\ Program[i].kind = "setinput" /\ Program[i].port # "" =>
                  InList(wf.tasks, Program[i].src)

====
